---- MODULE Spec2Model ----
(***************************************************************************)
(* A model of the SPI NAND flash driver of main.c (ESP32 + W25N01GV behind *)
(* the LittleFS block-device callbacks): the driver's functions, one SPI   *)
(* transaction per step, and the chip they talk to.                        *)
(*                                                                         *)
(* Every driver function is straight-line code that issues SPI             *)
(* transactions, so a function is modelled as the sequence of steps it     *)
(* performs (a "tx" step per spi_device_transmit, a "poll"/"delay" pair    *)
(* for the do-while loop of wait_ready); the variable todo holds the steps *)
(* the running call still has to perform.  The chip is a concurrent piece  *)
(* of hardware: it accepts a command, stays busy for a while, and finishes *)
(* on its own (ChipComplete).                                              *)
(***************************************************************************)
EXTENDS Integers, Sequences, FiniteSets, TLC

\* ------------------------------------------------------------ constants
PAGE_SIZE == 2048
PAGES_PER_BLOCK == 64
BLOCK_SIZE == PAGE_SIZE * PAGES_PER_BLOCK

CMD_WRITE_ENABLE == 6
CMD_LOAD_PROGRAM == 2
CMD_PROGRAM_EXECUTE == 16
CMD_READ_STATUS == 15
CMD_PAGE_DATA_READ == 19
CMD_READ_DATA == 3
CMD_BLOCK_ERASE == 216

\* cfg->prog_size and cfg->block_count (initialize_lfs)
PROG_SIZE == 256
BLOCK_COUNT == 1024

\* The second byte of the status-read command (the status register address).
STATUS_REG_ADDR == 192

\* The argument of both calls of the manual test in app_main (0x1100).
MANUAL_TEST_ADDR == 4352

\* The value of an erased byte of the chip (0xFF).
ERASED == 255

\* ------------------------------------------------------------ bounds
\* Calls the filesystem makes in one run.
MaxOps == 2

\* ------------------------------------------------------------ bytes
Byte(n) == n % 256

RECURSIVE BitAnd(_, _)
\* Bitwise AND of two naturals: programming a NAND cell can only clear bits.
BitAnd(a, b) ==
    IF a = 0 \/ b = 0 THEN 0
    ELSE (IF a % 2 = 1 /\ b % 2 = 1 THEN 1 ELSE 0) + 2 * BitAnd(a \div 2, b \div 2)

Fill(n, b) == [i \in 1..n |-> b]

\* strlen("hello") bytes of the string "hello".
Hello == <<104, 101, 108, 108, 111>>

\* What the MISO line carries while the chip does not drive it: the level the
\* board's wiring leaves the undriven line at, all zeros or all ones.
HiZBytes == {0, 255}

\* What an uninitialised uint8_t may hold, as far as its bit 0 matters.
UninitBytes == {0, 1}

\* What the cells of the chip hold when the program starts: whatever earlier
\* runs left there, taken as one fill value for the whole array.
BootFills == {0, 255}

\* ------------------------------------------------------------ the chip
\* The chip's state is one record:
\*   wel    the write-enable latch
\*   busy   the busy flag, op the operation in progress, <<kind, row>>
\*   pbuf   the program buffer, column -> byte, ERASED where it has no entry
\*   rreg   the read register, column -> byte, rdef where it has no entry
\*   mem    the array, <<page, column>> -> byte; a cell with no entry holds
\*          ERASED if its block is in erased, and boot otherwise
TOTAL_PAGES == PAGES_PER_BLOCK * BLOCK_COUNT

NoOp == <<"none", 0>>

ChipInit(fill) ==
    [wel |-> FALSE, busy |-> FALSE, op |-> NoOp, pbuf |-> <<>>, rreg |-> <<>>,
     rdef |-> fill, mem |-> <<>>, erased |-> {}, boot |-> fill]

BlockOf(page) == page \div PAGES_PER_BLOCK

CellAt(c, page, col) ==
    IF <<page, col>> \in DOMAIN c.mem THEN c.mem[<<page, col>>]
    ELSE IF BlockOf(page) \in c.erased THEN ERASED ELSE c.boot

RegAt(c, col) == IF col \in DOMAIN c.rreg THEN c.rreg[col] ELSE c.rdef

\* The row the chip decodes from the three address bytes that follow the
\* opcode: it has TOTAL_PAGES rows, and an address beyond them wraps.
ChipRow(tx) == (tx[2] * 65536 + tx[3] * 256 + tx[4]) % TOTAL_PAGES

\* The column the chip decodes from the two address bytes after the opcode.
ChipCol(tx) == (tx[2] * 256 + tx[3]) % PAGE_SIZE

\* Load program data: the buffer is reset to ERASED and the payload (the
\* bytes after opcode, column and reserved byte) is placed at the column;
\* bytes past the end of the page are dropped.
ChipLoad(c, tx) ==
    LET col == ChipCol(tx)
        n == Len(tx) - 4
        cols == {col + i - 1 : i \in 1..n} \cap (0..(PAGE_SIZE - 1))
    IN [c EXCEPT !.pbuf = [x \in cols |-> tx[x - col + 5]]]

\* The chip's reaction to one command.  A busy chip ignores every command
\* (status-read changes nothing either way); load-program, program-execute
\* and block-erase are accepted only with the write-enable latch set.
ChipAccept(c, tx) ==
    IF c.busy \/ Len(tx) = 0 THEN c
    ELSE IF tx[1] = CMD_WRITE_ENABLE THEN [c EXCEPT !.wel = TRUE]
    ELSE IF tx[1] = CMD_LOAD_PROGRAM /\ Len(tx) >= 4 /\ c.wel THEN ChipLoad(c, tx)
    ELSE IF tx[1] = CMD_PROGRAM_EXECUTE /\ Len(tx) >= 4 /\ c.wel
         THEN [c EXCEPT !.busy = TRUE, !.op = <<"prog", ChipRow(tx)>>]
    ELSE IF tx[1] = CMD_BLOCK_ERASE /\ Len(tx) >= 4 /\ c.wel
         THEN [c EXCEPT !.busy = TRUE, !.op = <<"erase", ChipRow(tx)>>]
    ELSE IF tx[1] = CMD_PAGE_DATA_READ /\ Len(tx) >= 4
         THEN [c EXCEPT !.busy = TRUE, !.op = <<"read", ChipRow(tx)>>]
    ELSE c

\* The status byte: bit 0 is busy, bit 1 the write-enable latch.
StatusByte(c) == (IF c.busy THEN 1 ELSE 0) + (IF c.wel THEN 2 ELSE 0)

\* The byte on MISO during byte i of a transaction (c is the chip when the
\* transaction starts).  The chip drives the line only after it has received
\* the whole command: from byte 3 of a status-read, from byte 5 of a
\* read-data.  Before that, and for every other command, the line is left at
\* its undriven level.
Miso(c, tx, i, level) ==
    IF Len(tx) >= 2 /\ tx[1] = CMD_READ_STATUS /\ i >= 3 THEN StatusByte(c)
    ELSE IF Len(tx) >= 4 /\ tx[1] = CMD_READ_DATA /\ i >= 5 /\ ~c.busy
              /\ ChipCol(tx) + i - 5 < PAGE_SIZE
         THEN RegAt(c, ChipCol(tx) + i - 5)
    ELSE level

\* The chip finishes the operation in progress.
ChipFinish(c) ==
    LET page == c.op[2]
        done == [c EXCEPT !.busy = FALSE, !.op = NoOp]
    IN IF c.op[1] = "erase"
       THEN [done EXCEPT !.wel = FALSE,
                         !.erased = c.erased \cup {BlockOf(page)},
                         !.mem = [x \in {y \in DOMAIN c.mem : BlockOf(y[1]) # BlockOf(page)}
                                    |-> c.mem[x]]]
       ELSE IF c.op[1] = "prog"
       THEN [done EXCEPT !.wel = FALSE,
                         !.mem = [x \in DOMAIN c.mem \cup {<<page, col>> : col \in DOMAIN c.pbuf}
                                    |-> IF x[1] = page /\ x[2] \in DOMAIN c.pbuf
                                        THEN BitAnd(CellAt(c, page, x[2]), c.pbuf[x[2]])
                                        ELSE c.mem[x]]]
       ELSE IF c.op[1] = "read"
       THEN [done EXCEPT !.rreg = [col \in {x[2] : x \in {y \in DOMAIN c.mem : y[1] = page}}
                                     |-> c.mem[<<page, col>>]],
                         !.rdef = IF BlockOf(page) \in c.erased THEN ERASED ELSE c.boot]
       ELSE done

\* ------------------------------------------------------------ the driver
\* One step of a driver function.  k = "tx": one spi_device_transmit of len
\* bytes, the first of them tx, capturing the first rxlen bytes on MISO into
\* the caller's buffer.  k = "poll" and k = "delay": the body and the test of
\* the loop of wait_ready.
Tx(bytes, len, rxlen) == [k |-> "tx", tx |-> bytes, len |-> len, rxlen |-> rxlen]

\* A uint32_t holds every natural the model checker can represent (they are
\* below 2^31), so the conversion to it changes no value that occurs here.
U32(n) == n
U16(n) == n % 65536

\* The bytes of a row address, least significant first.
RowBytes_LittleEndian(page) == <<Byte(page), Byte(page \div 256), Byte(page \div 65536)>>

\* The three bytes the code makes of a row address: page >> 16, page >> 8,
\* page, each stored into a uint8_t.
RowBytes(page) == <<Byte(page \div 65536), Byte(page \div 256), Byte(page)>>

\* The do-while loop of wait_ready: t.length = 16 with no rxlength, so the
\* two bytes clocked in while the two command bytes go out are received (the
\* first into status; the second lands behind it, and is not modelled).
wait_ready ==
    << [k |-> "poll", tx |-> <<CMD_READ_STATUS, STATUS_REG_ADDR>>, len |-> 2, rxlen |-> 2] >>

write_enable == << Tx(<<CMD_WRITE_ENABLE>>, 1, 0) >>

erase_block(block) ==
    LET row_addr == U32(block * PAGES_PER_BLOCK)
    IN write_enable
       \o << Tx(<<CMD_BLOCK_ERASE>> \o RowBytes(row_addr), 4, 0) >>
       \o wait_ready

load_program_data(col, data) ==
    << Tx(<<CMD_LOAD_PROGRAM, Byte(col \div 256), Byte(col), 0>> \o data, 4 + Len(data), 0) >>

program_execute(page) ==
    write_enable
    \o << Tx(<<CMD_PROGRAM_EXECUTE>> \o RowBytes(page), 4, 0) >>
    \o wait_ready

page_data_read(page) ==
    << Tx(<<CMD_PAGE_DATA_READ>> \o RowBytes(page), 4, 0) >> \o wait_ready

\* tx_buffer is the 4-byte cmd, the transaction is 4 + len bytes long and
\* rxlength is len bytes: the first len bytes on MISO go to the buffer.  (What
\* is sent after the 4 command bytes the chip ignores: it is not modelled.)
read_data(col, len) ==
    << Tx(<<CMD_READ_DATA, Byte(col \div 256), Byte(col), 0>>, 4 + len, len) >>

\* The page of the block's first byte, whatever the offset.
PageOf_NoOffset(block, offset) == U32(block * PAGES_PER_BLOCK)

PageOf(block, offset) == U32(block * PAGES_PER_BLOCK + offset \div PAGE_SIZE)
ColOf(offset) == U16(offset % PAGE_SIZE)

lfs_read(block, offset, size) ==
    page_data_read(PageOf(block, offset)) \o read_data(ColOf(offset), size)

lfs_prog(block, offset, data) ==
    load_program_data(ColOf(offset), data) \o program_execute(PageOf(block, offset))

lfs_erase(block) == erase_block(block)

\* A sync that arms the chip for a flush.
lfs_sync_Flush == write_enable

lfs_sync == << >>

\* The manual test of app_main, which runs before the filesystem is mounted.
app_main ==
    write_enable
    \o load_program_data(U16(MANUAL_TEST_ADDR), Hello)
    \o program_execute(MANUAL_TEST_ADDR)

\* ------------------------------------------------------------ the callers
\* What the filesystem passes to the callbacks in the runs explored here.
\* Erase: a block in range and the first one out of range.  Prog, as
\* <<block, offset, data>>: a few bytes at the start of a page and across
\* its end, and one program unit at each of the first two units of a page.
\* Read, as <<block, offset, size>>: what the small programs wrote, and a
\* few bytes across the end of the last page but one of the last block.
EraseArgs == {0, BLOCK_COUNT}
ProgArgs ==
    {<<0, 0, Hello>>, <<0, PAGE_SIZE - 1, Hello>>,
     <<0, 0, Fill(PROG_SIZE, 0)>>, <<0, PROG_SIZE, Fill(PROG_SIZE, 0)>>}
ReadArgs ==
    {<<0, 0, Len(Hello)>>, <<BLOCK_COUNT - 1, BLOCK_SIZE - PAGE_SIZE - 1, Len(Hello)>>}

\* A call of a driver entry point: its arguments, and the chip as the call
\* found it.
Call(fn, block, offset, data, size, c) ==
    [fn |-> fn, block |-> block, offset |-> offset, data |-> data, size |-> size, pre |-> c]

NoCall == [fn |-> "none"]

\* chip     the chip (see above)
\* todo     the steps the running call has still to perform
\* call     the running call, NoCall between calls
\* status   the local variable status of wait_ready
\* buffer   the caller's buffer of the running read
\* hist     the calls that have returned, each with its result
\* nops     the number of callback calls made so far
\* hiz      the byte read from MISO while the chip does not drive it
\* down     whether the transport has failed: from then on every
\*          spi_device_transmit fails
\* faulted  whether a transaction of the running call has failed
\* wire     the transactions the chip has been sent, in order; the repeated
\*          status-reads of one wait_ready are one entry
VARIABLES chip, todo, call, status, buffer, hist, nops, hiz, down, faulted, wire

vars == <<chip, todo, call, status, buffer, hist, nops, hiz, down, faulted, wire>>

Init ==
    /\ \E fill \in BootFills : chip = ChipInit(fill)
    /\ todo = app_main
    /\ call = Call("app_main", 0, 0, <<>>, 0, chip)
    /\ status = 0
    /\ buffer = <<>>
    /\ hist = <<>>
    /\ nops = 0
    /\ hiz \in HiZBytes
    /\ down = FALSE
    /\ faulted = FALSE
    /\ wire = <<>>

Idle == call = NoCall

\* The filesystem (lfs_mount, lfs_format and what follows, which app_main
\* reaches through initialize_lfs) calls one of the four callbacks of cfg.
Begin(c, steps, buf) ==
    /\ Idle
    /\ nops < MaxOps
    /\ call' = c
    /\ todo' = steps
    /\ buffer' = buf
    /\ faulted' = FALSE
    /\ nops' = nops + 1
    /\ UNCHANGED <<chip, status, hist, hiz, down, wire>>

CallRead ==
    \E a \in ReadArgs :
        Begin(Call("read", a[1], a[2], <<>>, a[3], chip),
              lfs_read(a[1], a[2], a[3]), Fill(a[3], 0))

CallProg ==
    \E a \in ProgArgs :
        Begin(Call("prog", a[1], a[2], a[3], Len(a[3]), chip),
              lfs_prog(a[1], a[2], a[3]), <<>>)

CallErase ==
    \E block \in EraseArgs :
        Begin(Call("erase", block, 0, <<>>, 0, chip), lfs_erase(block), <<>>)

CallSync == Begin(Call("sync", 0, 0, <<>>, 0, chip), lfs_sync, <<>>)

\* The entry of wire for a transaction: its first bytes (opcode and
\* address), its length, the call it belongs to (0 is app_main) and the
\* chip's busy flag and latch when it is sent.
Entry(step) ==
    [tx |-> SubSeq(step.tx, 1, IF Len(step.tx) < 4 THEN Len(step.tx) ELSE 4),
     len |-> step.len, op |-> nops, busy |-> chip.busy, wel |-> chip.wel]

IsPoll(e) == e.tx[1] = CMD_READ_STATUS

Logged(step) ==
    IF step.k # "tx" /\ wire # <<>> /\ IsPoll(wire[Len(wire)]) /\ wire[Len(wire)].op = nops
    THEN wire
    ELSE Append(wire, Entry(step))

\* spi_device_transmit fails (its result is discarded by every caller):
\* nothing reaches the chip and nothing is received.
Fault ==
    /\ faulted' = TRUE
    /\ UNCHANGED <<chip, wire>>

\* spi_device_transmit succeeds: the chip takes the command, and the bytes on
\* MISO during the first rxlen bytes of the transaction are received.
Exchange(step) ==
    /\ chip' = ChipAccept(chip, step.tx)
    /\ wire' = Logged(step)
    /\ UNCHANGED faulted

Received(step) == [i \in 1..step.rxlen |-> Miso(chip, step.tx, i, hiz)]

\* One spi_device_transmit outside wait_ready.
Transmit ==
    /\ todo # <<>>
    /\ todo[1].k = "tx"
    /\ IF ~down
       THEN /\ Exchange(todo[1])
            /\ buffer' = IF todo[1].rxlen > 0 THEN Received(todo[1]) ELSE buffer
       ELSE /\ Fault
            /\ buffer' = buffer
    /\ todo' = Tail(todo)
    /\ UNCHANGED <<call, status, hist, nops, hiz, down>>

\* The body of the loop of wait_ready: the status-read, whose first received
\* byte lands in status (k = "poll": the first iteration, before which status
\* is uninitialised; k = "repoll": a later one).
Poll ==
    /\ todo # <<>>
    /\ todo[1].k \in {"poll", "repoll"}
    /\ IF ~down
       THEN /\ Exchange(todo[1])
            /\ status' = Received(todo[1])[1]
       ELSE /\ Fault
            /\ IF todo[1].k = "poll" THEN status' \in UninitBytes ELSE status' = status
    /\ todo' = <<[todo[1] EXCEPT !.k = "delay"]>> \o Tail(todo)
    /\ UNCHANGED <<call, buffer, hist, nops, hiz, down>>

\* vTaskDelay, then the test of the loop: while (status & 0x01).
Delay ==
    /\ todo # <<>>
    /\ todo[1].k = "delay"
    /\ todo' = IF status % 2 = 1
               THEN <<[todo[1] EXCEPT !.k = "repoll"]>> \o Tail(todo)
               ELSE Tail(todo)
    /\ UNCHANGED <<chip, call, status, buffer, hist, nops, hiz, down, faulted, wire>>

\* The running call returns: every callback ends in return 0.
Return ==
    /\ ~Idle
    /\ todo = <<>>
    /\ hist' = Append(hist, [call |-> call, ret |-> 0, buffer |-> buffer,
                             faulted |-> faulted, post |-> chip])
    /\ call' = NoCall
    /\ buffer' = <<>>
    /\ faulted' = FALSE
    /\ UNCHANGED <<chip, todo, status, nops, hiz, down, wire>>

\* The chip finishes its erase, program or page read.
ChipComplete ==
    /\ chip.busy
    /\ chip' = ChipFinish(chip)
    /\ UNCHANGED <<todo, call, status, buffer, hist, nops, hiz, down, faulted, wire>>

\* The transport fails (the bus or the device stops responding).
TransportDown ==
    /\ ~down
    /\ down' = TRUE
    /\ UNCHANGED <<chip, todo, call, status, buffer, hist, nops, hiz, faulted, wire>>

Driver == Transmit \/ Poll \/ Delay \/ Return

Next == CallRead \/ CallProg \/ CallErase \/ CallSync \/ Driver \/ ChipComplete

\* The program on a transport that never fails.
Spec == Init /\ [][Next]_vars

\* The driver is a running program: a step it can take, it takes.  The
\* filesystem may stop calling, and nothing is assumed of the chip.
FairSpec == Spec /\ WF_vars(Driver)

\* The program on a transport that may fail.
FaultNext == Next \/ TransportDown

FaultSpec == Init /\ [][FaultNext]_vars

\* ------------------------------------------------------------ reading the history
\* The call a transaction of wire belongs to: call k is the (k+1)-th to
\* return (app_main is call 0), or the running one.
CallOf(k) == IF k + 1 <= Len(hist) THEN hist[k + 1].call ELSE call

Opcode(e) == e.tx[1]

\* The row address a program-execute, page-data-read or block-erase entry
\* carries, as the three bytes sent encode it.
RowOf(e) == e.tx[2] * 65536 + e.tx[3] * 256 + e.tx[4]

\* The opcodes call k has put on the wire, in order.
OpcodesOf(k) ==
    LET idx == {i \in 1..Len(wire) : wire[i].op = k}
        F[i \in 0..Len(wire)] ==
            IF i = 0 THEN <<>>
            ELSE IF i \in idx THEN Append(F[i - 1], Opcode(wire[i])) ELSE F[i - 1]
    IN F[Len(wire)]

\* Every byte of the block holds the erased value and the chip is at rest.
BlockErased(c, block) ==
    /\ ~c.busy
    /\ block \in c.erased \/ c.boot = ERASED
    /\ \A x \in DOMAIN c.mem : BlockOf(x[1]) = block => c.mem[x] = ERASED

InRange(c) == c.block < BLOCK_COUNT /\ c.offset + c.size <= BLOCK_SIZE

\* ------------------------------------------------------------ the claims

\* C1: round trip.  For an in-range block that was erased beforehand, and
\* offset + len <= block_size, prog(block, offset, data, len) followed by
\* read(block, offset, buf, len) leaves buf = data.
C1_RoundTrip ==
    \A i \in 1..(Len(hist) - 1) :
        LET p == hist[i].call
            r == hist[i + 1].call
        IN (/\ p.fn = "prog" /\ r.fn = "read"
            /\ r.block = p.block /\ r.offset = p.offset /\ r.size = p.size
            /\ InRange(p)
            /\ BlockErased(p.pre, p.block))
           => hist[i + 1].buffer = p.data

\* C2: after erase(block) has returned for an in-range block, every byte of
\* every page of the block holds the erased value 0xFF, whatever it held
\* before.
C2_EraseReadsErased ==
    \A i \in 1..Len(hist) :
        (hist[i].call.fn = "erase" /\ hist[i].call.block < BLOCK_COUNT)
        => /\ hist[i].call.block \in hist[i].post.erased \/ hist[i].post.boot = ERASED
           /\ \A x \in DOMAIN hist[i].post.mem :
                 BlockOf(x[1]) = hist[i].call.block => hist[i].post.mem[x] = ERASED

\* C3: a call during which a transport exchange failed does not return
\* success.
C3_FaultReported ==
    \A i \in 1..Len(hist) :
        (hist[i].call.fn \in {"read", "prog", "erase"} /\ hist[i].faulted)
        => hist[i].ret # 0

\* C4: a call with an out-of-range block fails (GeometryError) and puts no
\* erase, program or read command on the wire.
C4_GeometryChecked ==
    /\ \A i \in 1..Len(hist) :
          (hist[i].call.fn \in {"read", "prog", "erase"} /\ ~InRange(hist[i].call))
          => hist[i].ret # 0
    /\ \A j \in 1..Len(wire) :
          (wire[j].op > 0 /\ ~InRange(CallOf(wire[j].op)))
          => Opcode(wire[j]) \notin
                {CMD_BLOCK_ERASE, CMD_PROGRAM_EXECUTE, CMD_LOAD_PROGRAM,
                 CMD_PAGE_DATA_READ, CMD_READ_DATA}

\* C5: wait_ready is bounded: also when the chip never clears its busy bit,
\* the polling stops and every call returns.
C5_AlwaysReturns == <>[]chip.busy => ((~Idle) ~> Idle)

\* C6: wait_ready leaves its loop at the first poll whose status byte has the
\* busy bit clear, without another status-read; hence, if the chip clears
\* busy whenever it has become busy, every call returns.
C6_ReturnsWhenReady ==
    /\ [][(todo # <<>> /\ todo[1].k = "delay" /\ status % 2 = 0 /\ todo' # todo)
          => todo' = Tail(todo)]_vars
    /\ ([]<>(~chip.busy) => ((~Idle) ~> Idle))

\* C7: each write-enable on the wire is immediately followed by a
\* block-erase or a program-execute, and each block-erase and
\* program-execute is immediately preceded by a write-enable.
C7_WriteEnablePaired ==
    \A i \in 1..Len(wire) :
        /\ (Opcode(wire[i]) = CMD_WRITE_ENABLE /\ i < Len(wire))
           => Opcode(wire[i + 1]) \in {CMD_BLOCK_ERASE, CMD_PROGRAM_EXECUTE}
        /\ Opcode(wire[i]) \in {CMD_BLOCK_ERASE, CMD_PROGRAM_EXECUTE}
           => (i > 1 /\ Opcode(wire[i - 1]) = CMD_WRITE_ENABLE)

\* C8: a prog call that has returned has put on the wire, in this order,
\* write-enable, load-program, program-execute and the status polling, and
\* the latch was set when the load-program was sent.
C8_ProgOrder ==
    \A i \in 2..Len(hist) :
        hist[i].call.fn = "prog"
        => /\ OpcodesOf(i - 1) =
                <<CMD_WRITE_ENABLE, CMD_LOAD_PROGRAM, CMD_PROGRAM_EXECUTE, CMD_READ_STATUS>>
           /\ \A j \in 1..Len(wire) :
                 (wire[j].op = i - 1 /\ Opcode(wire[j]) = CMD_LOAD_PROGRAM) => wire[j].wel

\* A prog call that keeps to the program granularity of the configuration.
Granular(c) == c.fn = "prog" /\ c.offset % PROG_SIZE = 0 /\ c.size % PROG_SIZE = 0

Disjoint(c, d) == c.offset + c.size <= d.offset \/ d.offset + d.size <= c.offset

\* C9: between two program-executes to the same page that come from prog
\* calls keeping to the program granularity and programming different byte
\* ranges, there is a block-erase of the page's block.
C9_OneProgramPerPage ==
    \A i, j \in 1..Len(wire) :
        (/\ i < j
         /\ Opcode(wire[i]) = CMD_PROGRAM_EXECUTE /\ Opcode(wire[j]) = CMD_PROGRAM_EXECUTE
         /\ RowOf(wire[i]) = RowOf(wire[j])
         /\ Granular(CallOf(wire[i].op)) /\ Granular(CallOf(wire[j].op))
         /\ Disjoint(CallOf(wire[i].op), CallOf(wire[j].op)))
        => \E k \in (i + 1)..(j - 1) :
              /\ Opcode(wire[k]) = CMD_BLOCK_ERASE
              /\ BlockOf(RowOf(wire[k])) = BlockOf(RowOf(wire[j]))

\* C10: every program-execute on the wire comes after a block-erase, in the
\* same run, of the block that holds its page.
C10_EraseBeforeProgram ==
    \A j \in 1..Len(wire) :
        Opcode(wire[j]) = CMD_PROGRAM_EXECUTE
        => \E i \in 1..(j - 1) :
              /\ Opcode(wire[i]) = CMD_BLOCK_ERASE
              /\ BlockOf(RowOf(wire[i])) = BlockOf(RowOf(wire[j]))


\* C11: when the first callback finds the chip ready, no command of a
\* callback other than status-read is sent while the chip is busy, and the
\* chip is ready whenever a callback returns.
C11_NothingSentWhileBusy ==
    (nops >= 1 /\ ~CallOf(1).pre.busy)
    => /\ \A j \in 1..Len(wire) : wire[j].op >= 1 => (IsPoll(wire[j]) \/ ~wire[j].busy)
       /\ \A i \in 2..Len(hist) : ~hist[i].post.busy

\* The column a load-program or read-data entry carries, as the two bytes
\* sent encode it.
ColumnOf(e) == e.tx[2] * 256 + e.tx[3]

IsRowCmd(e) == Opcode(e) \in {CMD_PROGRAM_EXECUTE, CMD_PAGE_DATA_READ}

IsColumnCmd(e) == Opcode(e) \in {CMD_LOAD_PROGRAM, CMD_READ_DATA}

\* Blocks and offsets at the ends of their ranges and at the page and byte
\* boundaries in between.  What the address arithmetic makes of them does
\* not depend on the state, so the claims evaluate it once, where a run
\* starts, and look at the commands of the calls in every state.
SampleBlocks == {0, 1, BLOCK_COUNT - 1}
SampleOffsets == {0, PAGE_SIZE - 1, PAGE_SIZE, 65536, BLOCK_SIZE - 1}

\* C12: address decomposition is total and loss-less.  For every block in
\* [0, block_count) and offset in [0, block_size), the page and column that
\* read and prog compute, and put on the wire, satisfy
\* page * page_size + column = block * block_size + offset, column < page_size.
C12_Decomposition ==
    /\ wire = << >>
       => \A block \in SampleBlocks, offset \in SampleOffsets :
              /\ PageOf(block, offset) * PAGE_SIZE + ColOf(offset) = block * BLOCK_SIZE + offset
              /\ ColOf(offset) < PAGE_SIZE
    /\ \A i \in 1..Len(wire) :
           LET c == CallOf(wire[i].op)
           IN (/\ IsRowCmd(wire[i])
               /\ c.fn \in {"read", "prog"}
               /\ c.block < BLOCK_COUNT /\ c.offset < BLOCK_SIZE)
              => \A j \in 1..Len(wire) :
                     (wire[j].op = wire[i].op /\ IsColumnCmd(wire[j]))
                     => /\ RowOf(wire[i]) * PAGE_SIZE + ColumnOf(wire[j])
                              = c.block * BLOCK_SIZE + c.offset
                        /\ ColumnOf(wire[j]) < PAGE_SIZE

\* A read in the last block, beyond its first page, has sent both its
\* commands.
C12_Witness ==
    \E i, j \in 1..Len(wire) :
        /\ wire[i].op = wire[j].op
        /\ CallOf(wire[i].op).fn = "read"
        /\ CallOf(wire[i].op).block = BLOCK_COUNT - 1
        /\ CallOf(wire[i].op).offset >= PAGE_SIZE
        /\ IsRowCmd(wire[i]) /\ IsColumnCmd(wire[j])
        /\ RowOf(wire[i]) = TOTAL_PAGES - 2
        /\ ColumnOf(wire[j]) = PAGE_SIZE - 1


\* The cells either chip state has an entry for.
Cells(c, d) == DOMAIN c.mem \cup DOMAIN d.mem

\* C13: prog changes only the bytes it addresses.  After erase(block) and
\* prog(block, offset, data, size), both in range and both begun and ended
\* with the chip at rest, every byte of the block outside
\* [offset, offset + size) holds the erased value and every byte of every
\* other block is what it was before the erase.
C13_ProgFrame ==
    \A i \in 2..(Len(hist) - 1) :
        LET e == hist[i].call
            p == hist[i + 1].call
            before == e.pre
            after == hist[i + 1].post
        IN (/\ e.fn = "erase" /\ p.fn = "prog" /\ p.block = e.block
            /\ InRange(e) /\ InRange(p)
            /\ ~before.busy /\ ~p.pre.busy /\ ~after.busy)
           => \A x \in Cells(before, after) :
                  LET at == (x[1] % PAGES_PER_BLOCK) * PAGE_SIZE + x[2]
                  IN IF BlockOf(x[1]) = p.block
                     THEN (at < p.offset \/ at >= p.offset + p.size)
                          => CellAt(after, x[1], x[2]) = ERASED
                     ELSE CellAt(after, x[1], x[2]) = CellAt(before, x[1], x[2])


\* C14: every load-program and read-data command that a prog or read call
\* with offset + size <= block_size sends has column + length <= page_size.
C14_WithinPage ==
    \A j \in 1..Len(wire) :
        LET c == CallOf(wire[j].op)
        IN (/\ c.fn \in {"read", "prog"}
            /\ InRange(c)
            /\ IsColumnCmd(wire[j]))
           => ColumnOf(wire[j]) + (wire[j].len - 4) <= PAGE_SIZE


\* C15: sync is a no-op.  In every state it is called in, it has nothing to
\* do but return, it puts no command on the wire, neither its start nor its
\* return changes the chip (stored pages, busy flag, write-enable latch,
\* program buffer, read register), and it returns success.
C15_SyncNoOp ==
    /\ [](call.fn = "sync" => todo = << >>)
    /\ [](\A k \in 0..nops : CallOf(k).fn = "sync" => OpcodesOf(k) = << >>)
    /\ [](\A i \in 1..Len(hist) : hist[i].call.fn = "sync" => hist[i].ret = 0)
    /\ [][((call.fn = "sync" \/ call'.fn = "sync") /\ call' # call)
          => (chip' = chip /\ wire' = wire)]_vars

\* A sync called while the chip was busy, with its latch set, has returned.
C15_Witness ==
    \E i \in 1..Len(hist) :
        /\ hist[i].call.fn = "sync"
        /\ hist[i].call.pre.busy
        /\ hist[i].call.pre.wel
        /\ hist[i].post = hist[i].call.pre


\* C16: every command transmitted, start-up included, carries a row address
\* in [0, pages_per_block * block_count) and a column address in
\* [0, page_size).
C16_AddressesInGeometry ==
    \A j \in 1..Len(wire) :
        /\ (IsRowCmd(wire[j]) \/ Opcode(wire[j]) = CMD_BLOCK_ERASE) => RowOf(wire[j]) < TOTAL_PAGES
        /\ IsColumnCmd(wire[j]) => ColumnOf(wire[j]) < PAGE_SIZE


\* C17: read_data(col, buffer, len) on a ready chip, within the page, leaves
\* buffer[i] equal to byte col + i of the chip's read register for every i in
\* [0, len): nothing captured while the 4 command bytes are clocked out is
\* stored in the buffer.
C17_ReadDataBuffer ==
    [][(/\ todo # << >>
        /\ Head(todo).k = "tx"
        /\ Head(todo).tx[1] = CMD_READ_DATA
        /\ todo' = Tail(todo)
        /\ ~chip.busy /\ ~down
        /\ ColumnOf(Head(todo)) + Head(todo).rxlen <= PAGE_SIZE)
       => /\ Len(buffer') = Head(todo).rxlen
          /\ \A i \in 1..Head(todo).rxlen :
                 buffer'[i] = RegAt(chip, ColumnOf(Head(todo)) + i - 1)]_vars


\* C18: the byte whose bit 0 wait_ready tests is the status byte the chip
\* returns in reply to the status-read command, so wait_ready does not leave
\* its loop while the chip is busy.
C18_TestsStatusByte ==
    [][/\ (/\ todo # << >>
           /\ todo[1].k \in {"poll", "repoll"}
           /\ todo' # todo
           /\ ~down)
          => status' = StatusByte(chip)
       /\ (/\ todo # << >>
           /\ todo[1].k = "delay"
           /\ todo' = Tail(todo)
           /\ ~down)
          => ~chip.busy]_vars


\* Pages at the ends of the range and at the byte boundaries of the address.
SamplePages == {0, 1, 255, 256, TOTAL_PAGES - 1}

\* The command is the opcode followed by three bytes that, read big-endian,
\* are the row.
Encodes(tx, opcode, row) ==
    /\ Len(tx) = 4
    /\ tx[1] = opcode
    /\ \A i \in 2..4 : tx[i] \in 0..255
    /\ tx = <<opcode, (row \div 65536) % 256, (row \div 256) % 256, row % 256>>
    /\ tx[2] * 65536 + tx[3] * 256 + tx[4] = row

\* C19: wire encoding of row addresses is exact.  For every in-range block
\* and page, erase sends [0xD8, r>>16, r>>8, r] with r = block *
\* pages_per_block, program-execute sends [0x10, p>>16, p>>8, p] and
\* page-data-read [0x13, p>>16, p>>8, p]; the three address bytes read
\* big-endian give back r or p, and distinct blocks or pages give distinct
\* commands.
C19_RowEncoding ==
    /\ wire = << >>
       => /\ \A block \in SampleBlocks :
                 Encodes(erase_block(block)[2].tx, CMD_BLOCK_ERASE, block * PAGES_PER_BLOCK)
          /\ \A page \in SamplePages :
                 /\ Encodes(program_execute(page)[2].tx, CMD_PROGRAM_EXECUTE, page)
                 /\ Encodes(page_data_read(page)[1].tx, CMD_PAGE_DATA_READ, page)
          /\ \A b1, b2 \in SampleBlocks :
                 b1 # b2 => erase_block(b1)[2].tx # erase_block(b2)[2].tx
          /\ \A p1, p2 \in SamplePages :
                 p1 # p2 => /\ program_execute(p1)[2].tx # program_execute(p2)[2].tx
                            /\ page_data_read(p1)[1].tx # page_data_read(p2)[1].tx
    /\ \A j \in 1..Len(wire) :
           LET c == CallOf(wire[j].op)
               page == c.block * PAGES_PER_BLOCK + c.offset \div PAGE_SIZE
           IN /\ (c.fn = "erase" /\ InRange(c) /\ Opcode(wire[j]) = CMD_BLOCK_ERASE)
                 => Encodes(wire[j].tx, CMD_BLOCK_ERASE, c.block * PAGES_PER_BLOCK)
              /\ (c.fn = "prog" /\ InRange(c) /\ Opcode(wire[j]) = CMD_PROGRAM_EXECUTE)
                 => Encodes(wire[j].tx, CMD_PROGRAM_EXECUTE, page)
              /\ (c.fn = "read" /\ InRange(c) /\ Opcode(wire[j]) = CMD_PAGE_DATA_READ)
                 => Encodes(wire[j].tx, CMD_PAGE_DATA_READ, page)

\* The page-data-read of the last page but one and the block-erase of an
\* in-range block have been sent.
C19_Witness ==
    /\ \E j \in 1..Len(wire) :
           /\ CallOf(wire[j].op).fn = "read"
           /\ wire[j].tx = <<CMD_PAGE_DATA_READ, 0, 255, 254>>
    /\ \E j \in 1..Len(wire) :
           /\ CallOf(wire[j].op).fn = "erase" /\ InRange(CallOf(wire[j].op))
           /\ Opcode(wire[j]) = CMD_BLOCK_ERASE

====
